---- MODULE Spec2Model ----
(***************************************************************************)
(* Model of google/protobuf/compiler/cpp/tools/analyze_profile_proto.cc:   *)
(* the profile-driven field classifier (PDProtoAnalyzer), the C++ type     *)
(* name resolution (FindMessageTypeByCppName) and the text report driver   *)
(* (AnalyzeProfileProtoToText).                                            *)
(*                                                                         *)
(* Strings are sequences of one-character strings, so that indexing,       *)
(* substr, in-place character replacement and lexicographic comparison     *)
(* are computed the way the C++ code computes them.                        *)
(***************************************************************************)
EXTENDS Integers, Sequences, FiniteSets, TLC

VARIABLES
  \* ---- classifier run on one field (PDProtoAnalyzer) ----
  fpc,        \* position: "off" | "start" | "analyzed" | "optimized"
  field,      \* the FieldDescriptor handed to AnalyzeField / OptimizeField
  info_map,   \* PDProtoAnalyzer::info_map_ : the statistics provider's answers
  analysis,   \* PDProtoAnalysis returned by AnalyzeField
  optimized,  \* PDProtoOptimization returned by OptimizeField
  \* ---- one call of FindMessageTypeByCppName ----
  lpc,        \* position: "off" | "call" | "loop" | "return"
  pool,       \* the DescriptorPool: the set of its message types' full names
  name,       \* the C++ type name being resolved
  s,          \* local std::string s
  min_length, \* local size_t min_length
  descriptor, \* the returned Descriptor (its full name), or NullDescriptor
  warnings,   \* names logged by ABSL_LOG(WARNING)
  \* ---- one call of AnalyzeProfileProtoToText ----
  dpc,        \* position: "off" | "start" | "messages" | "find" | "fields" | "done"
  options,    \* AnalyzeProfileProtoOptions
  profile,    \* the profile file: readable, parsable, and its AccessInfo
  status,     \* the returned absl::Status ("none" until the call returns)
  stream,     \* the output stream: the lines written so far
  sorted,     \* SortMessages(*access_info): the profiled names in order
  idx,        \* index (0-based) of the range-for over sorted
  i,          \* local int i of the field loop
  message_header, \* local bool message_header
  mark        \* history: Len(stream) when the current type's field loop began

fieldVars == <<fpc, field, info_map, analysis, optimized>>
findVars == <<lpc, pool, name, s, min_length, descriptor, warnings>>
driverVars == <<dpc, options, profile, status, stream, sorted, idx, i,
                message_header, mark>>
vars == <<fieldVars, findVars, driverVars>>

(***************************************************************************)
(* Bounds                                                                  *)
(***************************************************************************)
\* access counts and the unlikely-used threshold range over 0..MaxCount
MaxCount == 1
\* nesting depth of the message types of the resolution schemas
MaxDepth == 2
\* a resolution schema is generated by at most MaxGen message types
\* (together with the types they are nested in)
MaxGen == 2
\* the profile of a report run names at most MaxMessages message types
MaxMessages == 2

(***************************************************************************)
(* Enumerations (lines 43, 64)                                             *)
(***************************************************************************)
PDProtoScale == {"kNever", "kRarely", "kDefault", "kLikely"}

\* the enumerators' integer values, which the comparisons >= and > use
ScaleValue(scale) ==
  CASE scale = "kNever"   -> 0
    [] scale = "kRarely"  -> 1
    [] scale = "kDefault" -> 2
    [] scale = "kLikely"  -> 3

PDProtoOptimization == {"kNone", "kLazy", "kInline", "kSplit"}

\* FieldDescriptor::CppType values that TypeName and OptimizeField switch on
CppTypes ==
  {"CPPTYPE_INT32", "CPPTYPE_INT64", "CPPTYPE_UINT32", "CPPTYPE_UINT64",
   "CPPTYPE_DOUBLE", "CPPTYPE_FLOAT", "CPPTYPE_BOOL", "CPPTYPE_ENUM",
   "CPPTYPE_STRING", "CPPTYPE_MESSAGE"}

\* AccessInfoMap access kinds the analyzer queries
AccessKinds == {"kRead", "kWrite"}

\* ratios, in thousandths: kHotRatio = 0.90, kColdRatio = 0.005
kHotRatio == 900
kColdRatio == 5
Ratios == {kHotRatio, kColdRatio}

(***************************************************************************)
(* The statistics provider.  AccessInfoMap is a collaborator whose code    *)
(* is outside this file; its answers are inputs.  For one field the        *)
(* answers are a record                                                    *)
(*   in_profile   : InProfile(field)                                       *)
(*   hot, cold    : IsHot / IsCold (field, kind, ratio), one answer per    *)
(*                  access kind and ratio                                  *)
(*   access_count : AccessCount(field, kReadWriteOther)                    *)
(* and the map holds them per field name, plus the map-wide unlikely-used  *)
(* threshold and HasProfile per message type.                              *)
(***************************************************************************)
FieldStats ==
  [in_profile : BOOLEAN,
   hot : [AccessKinds \X Ratios -> BOOLEAN],
   cold : [AccessKinds \X Ratios -> BOOLEAN],
   access_count : 0..MaxCount]

InProfile(map, f) == map.stats[f.name].in_profile
IsHot(map, f, kind, ratio) == map.stats[f.name].hot[<<kind, ratio>>]
IsCold(map, f, kind, ratio) == map.stats[f.name].cold[<<kind, ratio>>]
AccessCount(map, f) == map.stats[f.name].access_count
GetUnlikelyUsedThreshold(map) == map.unlikely_used_threshold

(***************************************************************************)
(* PDProtoAnalyzer (lines 80-160)                                          *)
(***************************************************************************)
\* faulty variant: hot on the read direction only
IsLikelyPresent_And(map, f) ==
  IsHot(map, f, "kRead", kHotRatio) /\ ~IsHot(map, f, "kWrite", kHotRatio)

IsLikelyPresent(map, f) ==
  IsHot(map, f, "kRead", kHotRatio) \/ IsHot(map, f, "kWrite", kHotRatio)

\* faulty variant: cold on either direction
IsRarelyPresent_Or(map, f) ==
  IsCold(map, f, "kRead", kColdRatio) \/ IsCold(map, f, "kWrite", kColdRatio)

IsRarelyPresent(map, f) ==
  IsCold(map, f, "kRead", kColdRatio) /\ IsCold(map, f, "kWrite", kColdRatio)

AnalyzePresence(map, f) ==
  IF InProfile(map, f)
    THEN IF IsLikelyPresent(map, f) THEN "kLikely"
         ELSE IF IsRarelyPresent(map, f) THEN "kRarely"
         ELSE "kDefault"
    ELSE "kDefault"

\* faulty variant: the boundary count = threshold excluded
AnalyzeUsage_Strict(map, f) ==
  IF InProfile(map, f) /\ AccessCount(map, f) < GetUnlikelyUsedThreshold(map)
    THEN "kRarely"
    ELSE "kDefault"

AnalyzeUsage(map, f) ==
  IF InProfile(map, f) /\ AccessCount(map, f) <= GetUnlikelyUsedThreshold(map)
    THEN "kRarely"
    ELSE "kDefault"

\* faulty variant: presence computed without the InProfile guard
AnalyzeField_NoProfileGuard(map, f) ==
  [presence |-> IF IsLikelyPresent(map, f) THEN "kLikely"
                ELSE IF IsRarelyPresent(map, f) THEN "kRarely"
                ELSE "kDefault",
   usage |-> AnalyzeUsage(map, f)]

AnalyzeField(map, f) ==
  [presence |-> AnalyzePresence(map, f), usage |-> AnalyzeUsage(map, f)]

\* faulty variant: the is_repeated test of the Lazy rule left out
OptimizeField_LazyRepeated(map, f) ==
  LET a == AnalyzeField(map, f) IN
  IF /\ f.cpp_type = "CPPTYPE_STRING"
     /\ ScaleValue(a.presence) >= ScaleValue("kLikely")
     /\ f.can_string_be_inlined
    THEN "kInline"
  ELSE IF /\ f.cpp_type = "CPPTYPE_MESSAGE"
          /\ ScaleValue(a.presence) > ScaleValue("kRarely")
          /\ a.usage = "kRarely"
    THEN "kLazy"
  ELSE "kNone"

OptimizeField(map, f) ==
  LET a == AnalyzeField(map, f) IN
  IF /\ f.cpp_type = "CPPTYPE_STRING"
     /\ ScaleValue(a.presence) >= ScaleValue("kLikely")
     /\ f.can_string_be_inlined
    THEN "kInline"
  ELSE IF /\ f.cpp_type = "CPPTYPE_MESSAGE"
          /\ ScaleValue(a.presence) > ScaleValue("kRarely")
          /\ a.usage = "kRarely"
          /\ ~f.is_repeated
    THEN "kLazy"
  ELSE "kNone"

(***************************************************************************)
(* The classifier called on one field (as at lines 298-299)                *)
(***************************************************************************)
\* PDProtoAnalysis analysis = analyzer.AnalyzeField(field);
CallAnalyzeField ==
  /\ fpc = "start"
  /\ analysis' = AnalyzeField(info_map, field)
  /\ fpc' = "analyzed"
  /\ UNCHANGED <<field, info_map, optimized>>

\* PDProtoOptimization optimized = analyzer.OptimizeField(field);
CallOptimizeField ==
  /\ fpc = "analyzed"
  /\ optimized' = OptimizeField(info_map, field)
  /\ fpc' = "optimized"
  /\ UNCHANGED <<field, info_map, analysis>>


(***************************************************************************)
(* Strings and the schema pool                                             *)
(***************************************************************************)
\* absl::string_view::substr(0, pos)
Substr0(str, pos) == SubSeq(str, 1, pos)

\* name[pos] with the code's 0-based index
CharAt(str, pos) == str[pos + 1]

\* s[pos] = c
SetCharAt(str, pos, c) == [str EXCEPT ![pos + 1] = c]

\* absl::StrReplaceAll(name, {{"::", "."}}): left to right, every
\* non-overlapping occurrence of "::" becomes "."
RECURSIVE StrReplaceAll(_)
StrReplaceAll(str) ==
  IF Len(str) = 0 THEN <<>>
  ELSE IF Len(str) >= 2 /\ str[1] = ":" /\ str[2] = ":"
    THEN <<".">> \o StrReplaceAll(SubSeq(str, 3, Len(str)))
  ELSE <<str[1]>> \o StrReplaceAll(SubSeq(str, 2, Len(str)))

NullDescriptor == <<>>

\* DescriptorPool::FindMessageTypeByName: the message type of that full
\* name, or null
FindMessageTypeByName(p, full_name) ==
  IF full_name \in p THEN full_name ELSE NullDescriptor

(***************************************************************************)
(* GetLongestName (lines 162-173)                                          *)
(***************************************************************************)
\* the while loop, entered with the local pos
RECURSIVE GetLongestNameFrom(_, _, _, _)
GetLongestNameFrom(p, str, min_len, pos) ==
  IF pos > min_len
    THEN IF /\ CharAt(str, pos - 1) = "_"
            /\ FindMessageTypeByName(p, Substr0(str, pos - 1)) # NullDescriptor
           THEN pos - 1
           ELSE GetLongestNameFrom(p, str, min_len, pos - 1)
    ELSE 0

GetLongestName(p, str, min_len) ==
  GetLongestNameFrom(p, str, min_len, Len(str))

(***************************************************************************)
(* FindMessageTypeByCppName (lines 175-191), one action per step           *)
(***************************************************************************)
\* lines 177-181: the exact lookup of the dotted name
FindExact ==
  /\ lpc = "call"
  /\ s' = StrReplaceAll(name)
  /\ descriptor' = FindMessageTypeByName(pool, s')
  /\ IF descriptor' # NullDescriptor
       THEN lpc' = "return" /\ min_length' = min_length
       ELSE lpc' = "loop" /\ min_length' = 1
  /\ UNCHANGED <<pool, name, warnings>>

\* faulty variant: an iteration that never advances min_length
FindIteration_NoAdvance(p, str, min_len) ==
  LET pos == GetLongestName(p, str, min_len) IN
  IF pos # 0
    THEN LET s2 == SetCharAt(str, pos, ".")
             d == FindMessageTypeByName(p, s2)
         IN [s |-> s2, descriptor |-> d, min_length |-> min_len,
             exit |-> d # NullDescriptor, warn |-> FALSE]
    ELSE [s |-> str, descriptor |-> NullDescriptor, min_length |-> min_len,
          exit |-> TRUE, warn |-> TRUE]

\* lines 182-190: one evaluation of the loop condition, followed by the
\* loop body (pos # 0) or by the fall-through to the warning (pos = 0);
\* the locals afterwards, whether the function returns, and whether it
\* logs the warning
FindIteration(p, str, min_len) ==
  LET pos == GetLongestName(p, str, min_len) IN
  IF pos # 0
    THEN LET s2 == SetCharAt(str, pos, ".")
             d == FindMessageTypeByName(p, s2)
         IN IF d # NullDescriptor
              THEN [s |-> s2, descriptor |-> d, min_length |-> min_len,
                    exit |-> TRUE, warn |-> FALSE]
              ELSE [s |-> s2, descriptor |-> d, min_length |-> pos + 1,
                    exit |-> FALSE, warn |-> FALSE]
    ELSE [s |-> str, descriptor |-> NullDescriptor, min_length |-> min_len,
          exit |-> TRUE, warn |-> TRUE]

FindIterate ==
  /\ lpc = "loop"
  /\ LET r == FindIteration(pool, s, min_length) IN
       /\ s' = r.s
       /\ descriptor' = r.descriptor
       /\ min_length' = r.min_length
       /\ lpc' = IF r.exit THEN "return" ELSE "loop"
       /\ warnings' = IF r.warn THEN Append(warnings, name) ELSE warnings
  /\ UNCHANGED <<pool, name>>

(***************************************************************************)
(* Report text                                                             *)
(* A text is a sequence of pieces (strings); the stream is the sequence    *)
(* of the lines written, each line the text before its "\n".               *)
(***************************************************************************)
\* operator<<(std::ostream&, PDProtoScale) (lines 50-62)
ScaleText(scale) ==
  CASE scale = "kNever"   -> "NEVER"
    [] scale = "kRarely"  -> "RARELY"
    [] scale = "kDefault" -> "DEFAULT"
    [] scale = "kLikely"  -> "LIKELY"

\* operator<<(std::ostream&, PDProtoOptimization) (lines 66-78)
OptimizationText(o) ==
  CASE o = "kNone"   -> "NONE"
    [] o = "kLazy"   -> "LAZY"
    [] o = "kInline" -> "INLINE"
    [] o = "kSplit"  -> "SPLIT"

\* TypeName (lines 193-233), for a non-null field
TypeName(f) ==
  LET base ==
        CASE f.cpp_type = "CPPTYPE_INT32"   -> <<"int32">>
          [] f.cpp_type = "CPPTYPE_INT64"   -> <<"int64">>
          [] f.cpp_type = "CPPTYPE_UINT32"  -> <<"uint32">>
          [] f.cpp_type = "CPPTYPE_UINT64"  -> <<"uint64">>
          [] f.cpp_type = "CPPTYPE_DOUBLE"  -> <<"double">>
          [] f.cpp_type = "CPPTYPE_FLOAT"   -> <<"float">>
          [] f.cpp_type = "CPPTYPE_BOOL"    -> <<"bool">>
          [] f.cpp_type = "CPPTYPE_ENUM"    -> <<"enum">>
          [] f.cpp_type = "CPPTYPE_STRING"  -> <<"string">>
          [] f.cpp_type = "CPPTYPE_MESSAGE" -> f.message_type
          [] OTHER -> <<"UNKNOWN">>
  IN IF f.is_repeated THEN base \o <<"[]">> ELSE base

\* lines 284-287
ThresholdHeader(map) ==
  << <<"Unlikely Used Threshold = ", ToString(GetUnlikelyUsedThreshold(map))>>,
     <<"See http://go/pdlazy for more information">>,
     <<"-----------------------------------------">> >>

\* line 304
HeaderLine(d) == <<"Message ">> \o d

\* lines 306-319
FieldLine(opts, f, a, o) ==
  <<"  ">> \o TypeName(f) \o <<" ", f.name, ":">>
    \o (IF opts.print_analysis /\ a.presence # "kDefault"
          THEN <<" ", ScaleText(a.presence), "_PRESENT">> ELSE <<>>)
    \o (IF opts.print_analysis /\ a.usage # "kDefault"
          THEN <<" ", ScaleText(a.usage), "_USED">> ELSE <<>>)
    \o (IF o # "kNone" THEN <<" ", OptimizationText(o)>> ELSE <<>>)

(***************************************************************************)
(* The message filter.  RE2 is a library; the filters of the model are     *)
(* literal patterns, for which a partial match is a substring search, and  *)
(* a pattern with an unclosed parenthesis, which RE2 rejects.              *)
(***************************************************************************)
\* line 272: an empty filter stands for ".*"
Pattern(filter) == IF filter = <<>> THEN <<".", "*">> ELSE filter

\* line 273: regex.ok()
RegexOk(pattern) ==
  Cardinality({k \in 1..Len(pattern) : pattern[k] = "("})
    = Cardinality({k \in 1..Len(pattern) : pattern[k] = ")"})

\* line 291: RE2::PartialMatch(message->name(), regex)
PartialMatch(text, pattern) ==
  \/ pattern = <<".", "*">>
  \/ \E k \in 0..(Len(text) - Len(pattern)) :
       SubSeq(text, k + 1, k + Len(pattern)) = pattern

(***************************************************************************)
(* SortMessages (lines 250-261)                                            *)
(***************************************************************************)
\* the character codes std::string's operator< compares
Ord(c) ==
  CASE c = "." -> 46
    [] c = ":" -> 58
    [] c = "B" -> 66
    [] c = "_" -> 95
    [] c = "a" -> 97

RECURSIVE StrLess(_, _)
StrLess(x, y) ==
  IF Len(y) = 0 THEN FALSE
  ELSE IF Len(x) = 0 THEN TRUE
  ELSE IF x[1] = y[1] THEN StrLess(Tail(x), Tail(y))
  ELSE Ord(x[1]) < Ord(y[1])

RECURSIVE InsertSorted(_, _)
InsertSorted(srt, x) ==
  IF Len(srt) = 0 THEN <<x>>
  ELSE IF StrLess(x, srt[1]) THEN <<x>> \o srt
  ELSE <<srt[1]>> \o InsertSorted(Tail(srt), x)

\* the names of access_info.message() in ascending order
RECURSIVE SortMessages(_)
SortMessages(messages) ==
  IF Len(messages) = 0 THEN <<>>
  ELSE InsertSorted(SortMessages(SubSeq(messages, 1, Len(messages) - 1)),
                    messages[Len(messages)])

(***************************************************************************)
(* The schema's descriptors.  A message type's fields are those declared   *)
(* for its simple name: B has a string and a message field, B_B a         *)
(* repeated message field and an int32 field.                              *)
(***************************************************************************)
SimpleName(full_name) ==
  LET dots == {k \in 1..Len(full_name) : full_name[k] = "."} IN
  IF dots = {} THEN full_name
  ELSE LET last == CHOOSE k \in dots : \A j \in dots : j <= k
       IN SubSeq(full_name, last + 1, Len(full_name))

DeclaredFields(simple_name) ==
  CASE simple_name = <<"B">> ->
         << [name |-> "text", cpp_type |-> "CPPTYPE_STRING",
             is_repeated |-> FALSE, can_string_be_inlined |-> TRUE,
             message_type |-> <<>>],
            [name |-> "child", cpp_type |-> "CPPTYPE_MESSAGE",
             is_repeated |-> FALSE, can_string_be_inlined |-> FALSE,
             message_type |-> <<"B", "_", "B">>] >>
    [] simple_name = <<"B", "_", "B">> ->
         << [name |-> "items", cpp_type |-> "CPPTYPE_MESSAGE",
             is_repeated |-> TRUE, can_string_be_inlined |-> FALSE,
             message_type |-> <<"B">>],
            [name |-> "count", cpp_type |-> "CPPTYPE_INT32",
             is_repeated |-> FALSE, can_string_be_inlined |-> FALSE,
             message_type |-> <<>>] >>
    [] OTHER -> <<>>

\* descriptor->field_count(), descriptor->field(i)
FieldCount(d) == Len(DeclaredFields(SimpleName(d)))
FieldAt(d, k) == DeclaredFields(SimpleName(d))[k + 1]

\* PDProtoAnalyzer::HasProfile (lines 88-90)
HasProfile(map, d) == map.has_profile[d]

(***************************************************************************)
(* Inputs: field shapes, provider answers, schemas, type names             *)
(***************************************************************************)
\* every field shape the classifier distinguishes
FieldShapes ==
  [name : {"f"},
   cpp_type : CppTypes,
   is_repeated : BOOLEAN,
   can_string_be_inlined : BOOLEAN,
   message_type : {<<"M">>}]

\* every combination of provider answers about that field
FieldMaps ==
  {[stats |-> [n \in {"f"} |-> st],
    unlikely_used_threshold |-> t,
    has_profile |-> <<>>] : st \in FieldStats, t \in 0..MaxCount}

NoField ==
  [name |-> "f", cpp_type |-> "CPPTYPE_INT32", is_repeated |-> FALSE,
   can_string_be_inlined |-> FALSE, message_type |-> <<>>]

NoAnalysis == [presence |-> "kDefault", usage |-> "kDefault"]

\* Schemas: one package, message types nested up to MaxDepth deep, simple
\* names from Idents.
Idents == {<<"B">>, <<"B", "_", "B">>}
Packages == {<<>>, <<"a">>}

\* the nesting paths (sequences of simple names) of depth 1..MaxDepth
RECURSIVE PathsOfDepth(_)
PathsOfDepth(d) ==
  IF d = 1 THEN {<<id>> : id \in Idents}
  ELSE {Append(q, id) : q \in PathsOfDepth(d - 1), id \in Idents}

Paths == UNION {PathsOfDepth(d) : d \in 1..MaxDepth}

RECURSIVE Join(_, _)
Join(parts, sep) ==
  IF Len(parts) = 0 THEN <<>>
  ELSE IF Len(parts) = 1 THEN parts[1]
  ELSE parts[1] \o sep \o Join(Tail(parts), sep)

\* the dotted full name of the message type at a path of a package
FullName(pkg, path) ==
  IF pkg = <<>> THEN Join(path, <<".">>)
  ELSE pkg \o <<".">> \o Join(path, <<".">>)

\* the subsets of S with at most k elements
RECURSIVE SubsetsUpTo(_, _)
SubsetsUpTo(S, k) ==
  IF k = 0 THEN {{}}
  ELSE LET r == SubsetsUpTo(S, k - 1)
       IN r \cup {x \cup {e} : x \in r, e \in S}

\* a path set with the paths of the enclosing types
ParentClosure(ps) ==
  {SubSeq(q, 1, n) : <<q, n>> \in {<<q, n>> \in ps \X (1..MaxDepth) : n <= Len(q)}}

\* the schema of a package generated by a set of paths
SchemaOf(pkg, g) == {FullName(pkg, q) : q \in ParentClosure(g)}

Pools == {SchemaOf(pkg, g) : pkg \in Packages, g \in SubsetsUpTo(Paths, MaxGen)}

\* the C++ name of the type at a path of a package: '::' after the package,
\* '_' between nested types
FlatName(pkg, path) ==
  IF pkg = <<>> THEN Join(path, <<"_">>)
  ELSE pkg \o <<":", ":">> \o Join(path, <<"_">>)

Names == {FlatName(pkg, q) : pkg \in Packages, q \in Paths}

\* Report runs: three schemas, three profiled names, three filters (none,
\* the literal "a", and an unclosed parenthesis).
DriverPools ==
  {SchemaOf(<<>>, {<< <<"B">>, <<"B">> >>}),
   SchemaOf(<<>>, {<< <<"B", "_", "B">> >>, << <<"B">>, <<"B", "_", "B">> >>}),
   SchemaOf(<<"a">>, {<< <<"B">>, <<"B">> >>})}

DriverNames ==
  {FlatName(<<>>, << <<"B">>, <<"B">> >>),
   FlatName(<<>>, << <<"B">>, <<"B", "_", "B">> >>),
   FlatName(<<"a">>, << <<"B">>, <<"B">> >>)}

Filters == {<<>>, <<"a">>, <<"(">>}

SeqsUpTo(S, n) == UNION {[1..k -> S] : k \in 0..n}

DriverOptions ==
  [has_pool : {TRUE}, pool : DriverPools, message_filter : Filters,
   print_unused_threshold : BOOLEAN, print_all_fields : BOOLEAN,
   print_analysis : BOOLEAN]
  \cup
  [has_pool : {FALSE}, pool : {{}}, message_filter : Filters,
   print_unused_threshold : BOOLEAN, print_all_fields : BOOLEAN,
   print_analysis : BOOLEAN]

\* provider answers about one field: the same answer for every kind and
\* ratio
MakeStats(in_profile, hot, cold, count) ==
  [in_profile |-> in_profile,
   hot |-> [q \in AccessKinds \X Ratios |-> hot],
   cold |-> [q \in AccessKinds \X Ratios |-> cold],
   access_count |-> count]

\* in a report run every field is in profile, and either hot and never
\* accessed, or neither hot nor cold and accessed MaxCount times
DriverStats ==
  {MakeStats(TRUE, TRUE, FALSE, 0),
   MakeStats(TRUE, FALSE, FALSE, MaxCount)}

\* the message types (by simple name) the profile has data for
ProfiledTypes == {Idents, {<<"B">>}}

\* a profile file: unreadable, unparsable, or an AccessInfo with its
\* profiled names and what the map built from it answers
DriverProfiles ==
  [readable : {TRUE}, parses : {TRUE}, read_status : {"OK"},
   message : SeqsUpTo(DriverNames, MaxMessages),
   unlikely_used_threshold : {0, MaxCount},
   field_stats : DriverStats,
   profiled : ProfiledTypes]
  \cup
  [readable : {TRUE}, parses : {FALSE}, read_status : {"OK"},
   message : {<<>>}, unlikely_used_threshold : {0},
   field_stats : {MakeStats(FALSE, FALSE, FALSE, 0)}, profiled : {{}}]
  \cup
  [readable : {FALSE}, parses : {FALSE}, read_status : {"NOT_FOUND"},
   message : {<<>>}, unlikely_used_threshold : {0},
   field_stats : {MakeStats(FALSE, FALSE, FALSE, 0)}, profiled : {{}}]

(***************************************************************************)
(* AnalyzeProfileProtoToText (lines 265-327)                               *)
(***************************************************************************)
\* the map of an analyzer that is not constructed
NoMap ==
  [stats |-> <<>>, unlikely_used_threshold |-> 0, has_profile |-> <<>>]

\* lines 82-86, 281: the map the analyzer builds from the parsed AccessInfo
AccessInfoMapOf(p, prof) ==
  [stats |-> [n \in {"text", "child", "items", "count"} |-> prof.field_stats],
   unlikely_used_threshold |-> prof.unlikely_used_threshold,
   has_profile |-> [d \in p |-> SimpleName(d) \in prof.profiled]]

\* faulty variant: the threshold header written before the inputs are
\* validated
Prologue_HeaderFirst(opts, prof) ==
  LET header == IF opts.print_unused_threshold
                  THEN ThresholdHeader(AccessInfoMapOf(opts.pool, prof))
                  ELSE <<>>
  IN IF ~opts.has_pool
       THEN [status |-> "INVALID_ARGUMENT: pool must not be null",
             stream |-> header]
     ELSE IF ~RegexOk(Pattern(opts.message_filter))
       THEN [status |-> "INVALID_ARGUMENT: Invalid regular expression",
             stream |-> header]
     ELSE IF ~prof.readable
       THEN [status |-> prof.read_status, stream |-> header]
     ELSE IF ~prof.parses
       THEN [status |-> "DATA_LOSS: Failed to parse AccessInfo",
             stream |-> header]
     ELSE [status |-> "none", stream |-> header]

\* lines 268-288: the status the call returns with before the message loop
\* ("none" when it goes on), and what it has written
Prologue(opts, prof) ==
  IF ~opts.has_pool
    THEN [status |-> "INVALID_ARGUMENT: pool must not be null", stream |-> <<>>]
  ELSE IF ~RegexOk(Pattern(opts.message_filter))
    THEN [status |-> "INVALID_ARGUMENT: Invalid regular expression",
          stream |-> <<>>]
  ELSE IF ~prof.readable
    THEN [status |-> prof.read_status, stream |-> <<>>]
  ELSE IF ~prof.parses
    THEN [status |-> "DATA_LOSS: Failed to parse AccessInfo", stream |-> <<>>]
  ELSE [status |-> "none",
        stream |-> IF opts.print_unused_threshold
                     THEN ThresholdHeader(AccessInfoMapOf(opts.pool, prof))
                     ELSE <<>>]

\* faulty variant: print_analysis does not make a field line due
EmitField_OptimizedOnly(opts, o) == opts.print_all_fields \/ o # "kNone"

\* lines 300-301: whether the field's line is written
EmitField(opts, o) ==
  opts.print_all_fields \/ opts.print_analysis \/ o # "kNone"

\* faulty variant: message_header ignored, the header written every time
BlockLines_HeaderEveryLine(opts, d, f, a, o, header_written) ==
  <<HeaderLine(d)>> \o <<FieldLine(opts, f, a, o)>>

\* lines 302-319: the lines written for a field whose line is emitted
BlockLines(opts, d, f, a, o, header_written) ==
  (IF ~header_written THEN <<HeaderLine(d)>> ELSE <<>>)
    \o <<FieldLine(opts, f, a, o)>>

\* lines 268-288
DriverStart ==
  /\ dpc = "start"
  /\ LET r == Prologue(options, profile) IN
       /\ stream' = r.stream
       /\ IF r.status # "none"
            THEN /\ status' = r.status
                 /\ dpc' = "done"
                 /\ UNCHANGED <<pool, sorted, info_map>>
            ELSE /\ status' = "none"
                 /\ dpc' = "messages"
                 /\ pool' = options.pool
                 /\ info_map' = AccessInfoMapOf(options.pool, profile)
                 /\ sorted' = SortMessages(profile.message)
  /\ idx' = 0
  /\ UNCHANGED <<options, profile, i, message_header, mark>>
  /\ UNCHANGED <<fpc, field, analysis, optimized>>
  /\ UNCHANGED <<lpc, name, s, min_length, descriptor, warnings>>

\* lines 290-293 and 326: the range-for takes the next profiled name, or
\* the call returns OK
NextMessage ==
  /\ dpc = "messages"
  /\ IF idx = Len(sorted)
       THEN /\ status' = "OK"
            /\ dpc' = "done"
            /\ UNCHANGED <<idx, lpc, name>>
       ELSE IF PartialMatch(sorted[idx + 1], Pattern(options.message_filter))
         THEN /\ dpc' = "find"
              /\ lpc' = "call"
              /\ name' = sorted[idx + 1]
              /\ UNCHANGED <<idx, status>>
         ELSE /\ idx' = idx + 1
              /\ UNCHANGED <<dpc, status, lpc, name>>
  /\ UNCHANGED <<options, profile, stream, sorted, i, message_header, mark>>
  /\ UNCHANGED fieldVars
  /\ UNCHANGED <<pool, s, min_length, descriptor, warnings>>

\* lines 292-295: FindMessageTypeByCppName has returned; a null descriptor
\* or a type without profile is skipped, otherwise the field loop begins
ResolveDone ==
  /\ dpc = "find"
  /\ lpc = "return"
  /\ lpc' = "off"
  /\ name' = <<>>
  /\ s' = <<>>
  /\ min_length' = 0
  /\ IF descriptor = NullDescriptor
       THEN /\ idx' = idx + 1
            /\ dpc' = "messages"
            /\ UNCHANGED <<descriptor, i, message_header, mark>>
       ELSE IF HasProfile(info_map, descriptor)
         THEN /\ dpc' = "fields"
              /\ i' = 0
              /\ message_header' = FALSE
              /\ mark' = Len(stream)
              /\ UNCHANGED <<idx, descriptor>>
         ELSE /\ idx' = idx + 1
              /\ dpc' = "messages"
              /\ descriptor' = NullDescriptor
              /\ UNCHANGED <<i, message_header, mark>>
  /\ UNCHANGED <<options, profile, status, stream, sorted>>
  /\ UNCHANGED fieldVars
  /\ UNCHANGED <<pool, warnings>>

\* lines 296-321: one iteration of the field loop
FieldStep ==
  /\ dpc = "fields"
  /\ i < FieldCount(descriptor)
  /\ LET f == FieldAt(descriptor, i)
         a == AnalyzeField(info_map, f)
         o == OptimizeField(info_map, f)
     IN /\ field' = f
        /\ analysis' = a
        /\ optimized' = o
        /\ IF EmitField(options, o)
             THEN /\ stream' = stream \o BlockLines(options, descriptor, f, a,
                                                    o, message_header)
                  /\ message_header' = TRUE
             ELSE UNCHANGED <<stream, message_header>>
  /\ i' = i + 1
  /\ UNCHANGED <<dpc, options, profile, status, sorted, idx, mark>>
  /\ UNCHANGED <<fpc, info_map>>
  /\ UNCHANGED findVars

\* line 296 (i = field_count) and 290: the field loop ends and the
\* range-for moves on
FieldsDone ==
  /\ dpc = "fields"
  /\ i = FieldCount(descriptor)
  /\ dpc' = "messages"
  /\ idx' = idx + 1
  /\ i' = 0
  /\ message_header' = FALSE
  /\ mark' = 0
  /\ descriptor' = NullDescriptor
  /\ field' = NoField
  /\ analysis' = NoAnalysis
  /\ optimized' = "kNone"
  /\ UNCHANGED <<options, profile, status, stream, sorted>>
  /\ UNCHANGED <<fpc, info_map, lpc, pool, name, s, min_length, warnings>>

(***************************************************************************)
(* Specifications                                                          *)
(***************************************************************************)
FieldOff ==
  /\ fpc = "off"
  /\ field = NoField
  /\ info_map = NoMap
  /\ analysis = NoAnalysis
  /\ optimized = "kNone"

FindOff ==
  /\ lpc = "off"
  /\ pool = {}
  /\ name = <<>>
  /\ s = <<>>
  /\ min_length = 0
  /\ descriptor = NullDescriptor
  /\ warnings = <<>>

DriverOff ==
  /\ dpc = "off"
  /\ options = [has_pool |-> FALSE, pool |-> {}, message_filter |-> <<>>,
                print_unused_threshold |-> FALSE, print_all_fields |-> FALSE,
                print_analysis |-> FALSE]
  /\ profile = [readable |-> FALSE, parses |-> FALSE,
                read_status |-> "NOT_FOUND", message |-> <<>>,
                unlikely_used_threshold |-> 0,
                field_stats |-> MakeStats(FALSE, FALSE, FALSE, 0),
                profiled |-> {}]
  /\ status = "none"
  /\ stream = <<>>
  /\ sorted = <<>>
  /\ idx = 0
  /\ i = 0
  /\ message_header = FALSE
  /\ mark = 0

\* SpecField: the classifier applied to one field, as the report driver
\* applies it (AnalyzeField, then OptimizeField)
InitField ==
  /\ fpc = "start"
  /\ field \in FieldShapes
  /\ info_map \in FieldMaps
  /\ analysis = NoAnalysis
  /\ optimized = "kNone"
  /\ FindOff
  /\ DriverOff

NextField ==
  \/ CallAnalyzeField /\ UNCHANGED <<findVars, driverVars>>
  \/ CallOptimizeField /\ UNCHANGED <<findVars, driverVars>>

SpecField == InitField /\ [][NextField]_vars

\* SpecFind: one call of FindMessageTypeByCppName
InitFind ==
  /\ lpc = "call"
  /\ pool \in Pools
  /\ name \in Names
  /\ s = <<>>
  /\ min_length = 0
  /\ descriptor = NullDescriptor
  /\ warnings = <<>>
  /\ FieldOff
  /\ DriverOff

NextFind ==
  \/ FindExact /\ UNCHANGED <<fieldVars, driverVars>>
  \/ FindIterate /\ UNCHANGED <<fieldVars, driverVars>>

SpecFind == InitFind /\ [][NextFind]_vars

\* SpecDriver: one call of AnalyzeProfileProtoToText
InitDriver ==
  /\ dpc = "start"
  /\ options \in DriverOptions
  /\ profile \in DriverProfiles
  /\ status = "none"
  /\ stream = <<>>
  /\ sorted = <<>>
  /\ idx = 0
  /\ i = 0
  /\ message_header = FALSE
  /\ mark = 0
  /\ FieldOff
  /\ FindOff

NextDriver ==
  \/ DriverStart
  \/ NextMessage
  \/ FindExact /\ UNCHANGED <<fieldVars, driverVars>>
  \/ FindIterate /\ UNCHANGED <<fieldVars, driverVars>>
  \/ ResolveDone
  \/ FieldStep
  \/ FieldsDone

SpecDriver == InitDriver /\ [][NextDriver]_vars

\* SpecRun: a report run that prints every field (the print options do
\* not affect which names are looked up), or a single resolution over the
\* wider schemas, running to its return: the code is sequential and never
\* suspends
InitRun ==
  /\ InitDriver
  /\ options.print_all_fields
  /\ ~options.print_analysis
  /\ ~options.print_unused_threshold

SpecRun ==
  (InitRun \/ InitFind) /\ [][NextDriver]_vars /\ WF_vars(NextDriver)

(***************************************************************************)
(* Properties of the classifier (checked under SpecField)                  *)
(***************************************************************************)
\* the provider's raw answers for the field under analysis
Stats == info_map.stats[field.name]
HotRead == Stats.hot[<<"kRead", kHotRatio>>]
HotWrite == Stats.hot[<<"kWrite", kHotRatio>>]
ColdRead == Stats.cold[<<"kRead", kColdRatio>>]
ColdWrite == Stats.cold[<<"kWrite", kColdRatio>>]

\* C1: OptimizeField returns Inline exactly when the field is string-typed,
\* the analysed presence is Likely and the string can be inlined; Lazy
\* exactly when the field is message-typed, presence is Default or Likely,
\* usage is Rarely and the field is not repeated; None in every other case;
\* Split is never returned.
C1_OptimizeRules ==
  fpc = "optimized" =>
    LET inline == /\ field.cpp_type = "CPPTYPE_STRING"
                  /\ analysis.presence = "kLikely"
                  /\ field.can_string_be_inlined
        lazy == /\ field.cpp_type = "CPPTYPE_MESSAGE"
                /\ analysis.presence \in {"kDefault", "kLikely"}
                /\ analysis.usage = "kRarely"
                /\ ~field.is_repeated
    IN /\ (optimized = "kInline") <=> inline
       /\ (optimized = "kLazy") <=> lazy
       /\ (optimized = "kNone") <=> (~inline /\ ~lazy)
       /\ optimized # "kSplit"
       /\ field.cpp_type \notin {"CPPTYPE_STRING", "CPPTYPE_MESSAGE"}
            => optimized = "kNone"
       /\ (field.cpp_type = "CPPTYPE_MESSAGE" /\ field.is_repeated)
            => optimized = "kNone"

\* C1 witness: a repeated message field that is likely present and rarely
\* used has been optimized (and got None).
C1_Witness ==
  /\ fpc = "optimized"
  /\ field.cpp_type = "CPPTYPE_MESSAGE"
  /\ field.is_repeated
  /\ analysis.presence = "kLikely"
  /\ analysis.usage = "kRarely"
  /\ optimized = "kNone"

\* C2: presence is Likely if the field is in profile and the read-hot or the
\* write-hot test (0.90) passes; otherwise Rarely if it is in profile and
\* both the read-cold and the write-cold test (0.005) pass; otherwise
\* Default.
C2_PresenceRules ==
  fpc # "start" =>
    analysis.presence =
      IF Stats.in_profile /\ (HotRead \/ HotWrite) THEN "kLikely"
      ELSE IF Stats.in_profile /\ ColdRead /\ ColdWrite THEN "kRarely"
      ELSE "kDefault"

\* C2 witness: an in-profile field cold on the read direction only has been
\* analysed (and got Default).
C2_Witness ==
  /\ fpc = "analyzed"
  /\ Stats.in_profile
  /\ ~HotRead /\ ~HotWrite
  /\ ColdRead /\ ~ColdWrite
  /\ analysis.presence = "kDefault"

\* C3: usage is Rarely exactly when the field is in profile and its
\* read-write-other access count is <= the provider's unlikely-used
\* threshold, and Default otherwise, whatever the hot/cold answers are.
C3_UsageRule ==
  fpc # "start" =>
    /\ analysis.usage \in {"kRarely", "kDefault"}
    /\ (analysis.usage = "kRarely") <=>
         (Stats.in_profile
            /\ Stats.access_count <= info_map.unlikely_used_threshold)

\* C3 witness: the boundary count = threshold on a field in profile that
\* is hot on both directions.
C3_Witness ==
  /\ fpc = "analyzed"
  /\ Stats.in_profile
  /\ Stats.access_count = info_map.unlikely_used_threshold
  /\ HotRead /\ HotWrite
  /\ analysis.usage = "kRarely"

\* C4: a field that is not in profile gets presence = Default and
\* usage = Default from AnalyzeField and None from OptimizeField; a
\* non-Default presence or usage is produced only for a field in profile.
C4_NoProfileDefaults ==
  /\ (fpc # "start" /\ ~Stats.in_profile) =>
        analysis = [presence |-> "kDefault", usage |-> "kDefault"]
  /\ (fpc = "optimized" /\ ~Stats.in_profile) => optimized = "kNone"
  /\ (analysis.presence # "kDefault" \/ analysis.usage # "kDefault")
        => Stats.in_profile

\* C4 witness: an unprofiled inlinable string field for which the provider
\* would answer hot, and a count below the threshold, has been optimized.
C4_Witness ==
  /\ fpc = "optimized"
  /\ ~Stats.in_profile
  /\ field.cpp_type = "CPPTYPE_STRING"
  /\ field.can_string_be_inlined
  /\ HotRead /\ HotWrite
  /\ Stats.access_count <= info_map.unlikely_used_threshold
  /\ optimized = "kNone"

\* the provider state that differs from the current one only in that the
\* write-hot test at 0.90 passes
WriteHotRaised ==
  [info_map EXCEPT
     !.stats[field.name].hot[<<"kWrite", kHotRatio>>] = TRUE]

\* C10: when the write-hot test fails, the presence AnalyzeField computes
\* in the state where it passes (all other answers equal) is >= the
\* presence computed in this state, under Never < Rarely < Default < Likely.
C10_PresenceMonotone ==
  (fpc # "start" /\ ~HotWrite) =>
    ScaleValue(AnalyzeField(WriteHotRaised, field).presence)
      >= ScaleValue(analysis.presence)

\* C10 witness: a read-hot, write-not-hot field in profile was analysed as
\* Likely, and is still Likely with the write-hot test raised.
C10_Witness ==
  /\ fpc = "analyzed"
  /\ Stats.in_profile
  /\ HotRead /\ ~HotWrite
  /\ analysis.presence = "kLikely"
  /\ AnalyzeField(WriteHotRaised, field).presence = "kLikely"

(***************************************************************************)
(* Properties of the type-name resolution (checked under SpecFind)         *)
(***************************************************************************)
\* the flattened C++ identifier of a message type of a schema: every '.'
\* that follows an enclosing message type becomes '_', every other '.'
\* (a namespace separator) becomes '::'
RECURSIVE FlattenFrom(_, _, _)
FlattenFrom(p, m, k) ==
  IF k > Len(m) THEN <<>>
  ELSE (IF m[k] = "."
          THEN IF SubSeq(m, 1, k - 1) \in p THEN <<"_">> ELSE <<":", ":">>
          ELSE <<m[k]>>) \o FlattenFrom(p, m, k + 1)

\* the message types of the schema that correspond to an identifier
Corresponding(p, n) == {m \in p : FlattenFrom(p, m, 1) = n}

\* C5: resolving a flattened nested-type identifier returns the schema
\* message that corresponds to it whenever exactly one does, and returns
\* no match when none does.
C5_ResolvesUniqueMatch ==
  lpc = "return" =>
    /\ Cardinality(Corresponding(pool, name)) = 1
         => descriptor \in Corresponding(pool, name)
    /\ Corresponding(pool, name) = {} => descriptor = NullDescriptor

(***************************************************************************)
(* Properties of the report driver (checked under SpecDriver, SpecRun)     *)
(***************************************************************************)
\* the lines written since the field loop of the current type began
Block == SubSeq(stream, mark + 1, Len(stream))

IsFieldLine(line) == line[1] = "  "

\* the text every line of a field begins with
FieldLinePrefix(f) == <<"  ">> \o TypeName(f) \o <<" ", f.name, ":">>

\* the fields of the current type the loop has gone through
FieldsVisited == SubSeq(DeclaredFields(SimpleName(descriptor)), 1, i)

\* those of them whose line is due: a print flag is set, or the verdict is
\* not None
FieldsDue ==
  SelectSeq(FieldsVisited,
            LAMBDA f : \/ options.print_all_fields
                       \/ options.print_analysis
                       \/ OptimizeField(info_map, f) # "kNone")

\* C6 (as stated): once the field loop of a matched, resolved and profiled
\* type is over, the report holds that type's "Message <full name>" header
\* line, followed by its field lines.
C6_HeaderForEveryProcessedType ==
  (dpc = "fields" /\ i = FieldCount(descriptor)) =>
    /\ Len(Block) >= 1
    /\ Block[1] = HeaderLine(descriptor)
    /\ \A k \in 2..Len(Block) : IsFieldLine(Block[k])

\* C6 (amended): a processed type's header line is written exactly when at
\* least one of its field lines is written; it is then written once, as
\* the first line of the type's block, and only field lines follow it.
C6_HeaderIffFieldLine ==
  dpc = "fields" =>
    /\ (Block = <<>>) <=> (FieldsDue = <<>>)
    /\ Block # <<>> =>
         /\ Len(Block) >= 2
         /\ Block[1] = HeaderLine(descriptor)
         /\ \A k \in 2..Len(Block) : IsFieldLine(Block[k])

\* C6 witness: after earlier output, a type's field loop is over with a
\* header line and two field lines written.
C6_Witness ==
  /\ dpc = "fields"
  /\ i = FieldCount(descriptor)
  /\ mark > 0
  /\ Len(Block) = 3
  /\ Block[1] = HeaderLine(descriptor)

\* C7: for the fields of a processed type, a field line is written if and
\* only if print_all_fields or print_analysis is set or the field's
\* verdict is not None, and the lines are in the declared field order.
C7_FieldLineIffDue ==
  dpc = "fields" =>
    LET lines == SelectSeq(Block, IsFieldLine) IN
    /\ Len(lines) = Len(FieldsDue)
    /\ \A k \in 1..Len(lines) :
         LET pre == FieldLinePrefix(FieldsDue[k]) IN
         /\ Len(lines[k]) >= Len(pre)
         /\ SubSeq(lines[k], 1, Len(pre)) = pre

\* C7 witness: with no print flag set, two fields were visited and only
\* the second one's line was written.
C7_Witness ==
  /\ dpc = "fields"
  /\ i = 2
  /\ ~options.print_all_fields
  /\ ~options.print_analysis
  /\ Len(SelectSeq(Block, IsFieldLine)) = 1
  /\ optimized = "kLazy"
  /\ OptimizeField(info_map, FieldAt(descriptor, 0)) = "kNone"

\* the inputs the call rejects
BadInputs ==
  \/ ~options.has_pool
  \/ ~RegexOk(Pattern(options.message_filter))
  \/ ~profile.readable
  \/ ~profile.parses

\* C8: called without a schema pool, with an invalid filter pattern, or
\* with a profile that cannot be read or parsed, the call returns a non-OK
\* status and has written nothing to the stream.
C8_ErrorsWriteNothing ==
  (dpc # "off" /\ BadInputs) =>
    /\ dpc \in {"start", "done"}
    /\ stream = <<>>
    /\ dpc = "done" => status \notin {"OK", "none"}

\* C8 witness: a run asked to print the threshold header has returned
\* DATA_LOSS for an unparsable profile.
C8_Witness ==
  /\ dpc = "done"
  /\ options.has_pool
  /\ RegexOk(Pattern(options.message_filter))
  /\ profile.readable
  /\ ~profile.parses
  /\ options.print_unused_threshold
  /\ status = "DATA_LOSS: Failed to parse AccessInfo"

\* C9: the prefix-search loop terminates, its lower bound min_length
\* growing on every iteration that continues; a lookup miss only skips the
\* type (nothing written, no status set, the range-for moves to the next
\* name); every matching name is looked up; a run with valid inputs ends
\* with OK after going through all the profiled names.
C9_LookupMissNotFatal ==
  /\ [][(lpc = "loop" /\ lpc' = "loop")
          => (min_length' > min_length /\ min_length' <= Len(s'))]_vars
  /\ [][(dpc = "find" /\ lpc = "return" /\ descriptor = NullDescriptor)
          => /\ dpc' = "messages"
             /\ idx' = idx + 1
             /\ stream' = stream
             /\ status' = "none"]_vars
  /\ [][(/\ dpc = "messages"
         /\ idx < Len(sorted)
         /\ PartialMatch(sorted[idx + 1], Pattern(options.message_filter)))
          => (dpc' = "find" /\ lpc' = "call" /\ name' = sorted[idx + 1])]_vars
  /\ (lpc = "call" \/ (dpc = "start" /\ ~BadInputs))
       ~> \/ dpc = "off" /\ lpc = "return"
          \/ dpc = "done" /\ status = "OK" /\ idx = Len(sorted)

\* C9 witness: a run has returned OK after the first profiled name missed
\* (its warning logged) and a later type's lines were written.
C9_Witness ==
  /\ dpc = "done"
  /\ status = "OK"
  /\ Len(sorted) = 2
  /\ warnings = <<sorted[1]>>
  /\ ~options.print_unused_threshold
  /\ stream # <<>>

====
